---- MODULE Spec2Model ----
(***************************************************************************)
(* Model of src/cmd/sub.go, package cloudstorage: GCSMemStore (the store   *)
(* registry over a remote bucket) and memGCSObject (the in-memory buffered *)
(* object handle).  The remote bucket is the environment the store talks   *)
(* to through the storage client: list, read, write, delete.  Every        *)
(* exported method is one action; a remote call inside a method may fail   *)
(* transiently, which the action draws nondeterministically.               *)
(***************************************************************************)
EXTENDS Integers, Sequences, FiniteSets, TLC

\* ------------------------------------------------------------------ bounds
\* Longest byte sequence held by a buffer or a blob.
MaxLen == 2
\* Largest value of the wall clock read by Write (time.Now()).
MaxClock == 2
\* Number of handles the caller of the registry holds at once.
MaxHandles == 1
\* Largest page size the store is built with.
MaxPageSize == 2
\* Largest --num flag of the sub command.
MaxConsume == 2

\* GCSRetries is used at sub.go:298,311,357,452,563; its declaration is in a
\* file of the package that is not part of the sources.
GCSRetries == 2

Byte == {1, 2}

\* Object names are byte strings; "a", "ab", "b".
nA == <<1>>
nAB == <<1, 2>>
nB == <<2>>
Names == {nA, nAB, nB}
NilName == <<>>

HandleIds == 1..MaxHandles

ReadOnly == "ReadOnly"
ReadWrite == "ReadWrite"
AccessLevels == {ReadOnly, ReadWrite}

\* ----------------------------------------------------------- sequences
Min(a, b) == IF a <= b THEN a ELSE b

Take(s, n) == SubSeq(s, 1, Min(n, Len(s)))

Drop(s, n) == SubSeq(s, Min(n, Len(s)) + 1, Len(s))

\* All byte sequences of length at most n.
BSeq(n) == UNION {[1..k -> Byte] : k \in 0..n}

\* strings.HasPrefix, as the remote listing applies Query.Prefix.
HasPrefix(s, p) == Len(p) <= Len(s) /\ SubSeq(s, 1, Len(p)) = p

\* Lexicographic order of names: the order of a bucket listing.
RECURSIVE NameLess(_, _)
NameLess(x, y) ==
    IF x = <<>> THEN y # <<>>
    ELSE IF y = <<>> THEN FALSE
    ELSE IF Head(x) # Head(y) THEN Head(x) < Head(y)
    ELSE NameLess(Tail(x), Tail(y))

RECURSIVE SortNames(_)
SortNames(S) ==
    IF S = {} THEN <<>>
    ELSE LET m == CHOOSE x \in S : \A y \in S \ {x} : NameLess(x, y)
         IN <<m>> \o SortNames(S \ {m})

\* ------------------------------------------------------------- the remote
NoBlob == [present |-> FALSE, body |-> <<>>, meta |-> "none"]

Blob(b, m) == [present |-> TRUE, body |-> b, meta |-> m]

\* The attributes a listing returns for one blob (storage.ObjectAttrs).
Attrs(rem, n) == [name |-> n, meta |-> rem[n].meta, size |-> Len(rem[n].body)]

\* One page of Bucket.List: the blobs whose name has the prefix, in name
\* order, at most max of them from position token on, and the token of the
\* next page (0: no continuation).
RemoteList(rem, prefix, max, token) ==
    LET all == SortNames({n \in Names : rem[n].present /\ HasPrefix(n, prefix)})
        hi == Min(token + max, Len(all))
    IN [results |-> [i \in 1..(hi - token) |-> Attrs(rem, all[token + i])],
        next |-> IF hi < Len(all) THEN hi ELSE 0]

VARIABLES remote, handles, objectMap, pageSize, now, panicked, last

\* The sub command: quit is the number of signals held by the quit channel
\* (capacity 1), notify whether signal.Notify is in force, pc the position
\* of the main loop and of the puller goroutine, msg the puller's m,
\* i0 and i1 the counters, numConsume and ack the flags.
VARIABLES quit, notify, pc, msg, i0, i1, numConsume, ack

storeVars == <<remote, handles, objectMap, pageSize, now, panicked, last>>

subVars == <<quit, notify, pc, msg, i0, i1, numConsume, ack>>

vars == <<remote, handles, objectMap, pageSize, now, panicked, last,
          quit, notify, pc, msg, i0, i1, numConsume, ack>>

\* ------------------------------------------------------------- handles
NoHandle ==
    [live |-> FALSE, name |-> NilName, googleObject |-> NilName,
     metadata |-> "none", buffNil |-> TRUE, buff |-> <<>>,
     readonly |-> FALSE, opened |-> FALSE, updated |-> 0]

\* contentType(objectname): the metadata NewObject starts a handle with.
ContentTypeMeta == "ctype"

\* What the last operation did and returned.
BaseLast(op, h, name, err) ==
    [op |-> op, h |-> h, name |-> name, err |-> err, attempts |-> 0,
     remoteOk |-> FALSE, lists |-> 0, reads |-> 0, uploads |-> 0,
     deletes |-> 0, syncs |-> 0, tries |-> <<>>, lasterr |-> 0,
     arg |-> <<>>, out |-> <<>>]

\* The caller keeps the handles it is given in the slots it has room for.
FreeIds(slots) == {h \in slots : ~handles[h].live}

NextId(slots) == CHOOSE h \in FreeIds(slots) : \A g \in FreeIds(slots) : h <= g


\* ------------------------------------------------------------ the registry
\* listObjects(q, retries): the loop from try i on.  Each try calls the
\* remote List once; a failing try is followed by the next one, a succeeding
\* try returns the page; when the loop runs out the last error is returned
\* (lasterr: the try whose error it is, counted from 1; 0: no error).
RECURSIVE listObjects(_, _, _, _, _, _)
listObjects(rem, prefix, max, token, retries, i) ==
    IF i >= retries
    THEN {[err |-> "ListError", page |-> [results |-> <<>>, next |-> 0],
           attempts |-> i, remoteOk |-> FALSE, lasterr |-> i]}
    ELSE {[err |-> "ok", page |-> RemoteList(rem, prefix, max, token),
           attempts |-> i + 1, remoteOk |-> TRUE, lasterr |-> 0]}
         \cup listObjects(rem, prefix, max, token, retries, i + 1)

\* The lookup of Get: Query{Prefix: o, MaxResults: 1}, then the first result.
GetLookup(rem, o) ==
    {[err |-> IF r.err # "ok" THEN r.err
              ELSE IF Len(r.page.results) = 0 THEN "ObjectNotFound"
              ELSE "ok",
      found |-> IF r.err = "ok" THEN r.page.results ELSE <<>>,
      attempts |-> r.attempts, remoteOk |-> r.remoteOk]
     : r \in listObjects(rem, o, 1, 0, GCSRetries, 0)}

\* The handle Get builds from the attributes found: no buffer is allocated.
GetHandle(gobj) ==
    [live |-> TRUE, name |-> gobj.name, googleObject |-> gobj.name,
     metadata |-> gobj.meta, buffNil |-> TRUE, buff |-> <<>>,
     readonly |-> FALSE, opened |-> FALSE, updated |-> 0]

\* The handle NewObject builds: an empty buffer, the derived content type.
NewHandle(objectname) ==
    [live |-> TRUE, name |-> objectname, googleObject |-> NilName,
     metadata |-> ContentTypeMeta, buffNil |-> FALSE, buff |-> <<>>,
     readonly |-> FALSE, opened |-> FALSE, updated |-> 0]

Get(o, slots) ==
    /\ ~panicked
    /\ \E r \in GetLookup(remote, o) :
         /\ r.err = "ok" => FreeIds(slots) # {}
         /\ handles' = IF r.err = "ok"
                       THEN [handles EXCEPT ![NextId(slots)] = GetHandle(r.found[1])]
                       ELSE handles
         /\ last' = [BaseLast("Get", IF r.err = "ok" THEN NextId(slots) ELSE 0,
                              o, r.err)
                       EXCEPT !.attempts = r.attempts, !.lists = r.attempts,
                              !.remoteOk = r.remoteOk, !.out = r.found]
    /\ UNCHANGED <<remote, objectMap, pageSize, subVars, now, panicked>>

NewObject(objectname, slots) ==
    /\ ~panicked
    /\ \E r \in GetLookup(remote, objectname) :
         LET err == IF r.err = "ObjectNotFound" THEN "ok"
                    ELSE IF r.err = "ok" THEN "ObjectExists"
                    ELSE r.err
             id == IF err = "ok" THEN NextId(slots) ELSE 0
         IN /\ err = "ok" => FreeIds(slots) # {}
            /\ handles' = IF err = "ok"
                          THEN [handles EXCEPT ![id] = NewHandle(objectname)]
                          ELSE handles
            /\ objectMap' = IF err = "ok"
                            THEN [objectMap EXCEPT ![objectname] = id]
                            ELSE objectMap
            /\ last' = [BaseLast("NewObject", id, objectname, err)
                          EXCEPT !.attempts = r.attempts, !.lists = r.attempts,
                                 !.remoteOk = r.remoteOk, !.out = r.found]
    /\ UNCHANGED <<remote, pageSize, subVars, now, panicked>>

\* Delete that also drops the name from the registry.
DeleteUnregisters(o) ==
    /\ ~panicked
    /\ \E ok \in {b \in BOOLEAN : b => remote[o].present} :
         /\ remote' = IF ok THEN [remote EXCEPT ![o] = NoBlob] ELSE remote
         /\ last' = [BaseLast("Delete", 0, o, IF ok THEN "ok" ELSE "DeleteError")
                       EXCEPT !.attempts = 1, !.deletes = 1, !.remoteOk = ok]
    /\ objectMap' = [objectMap EXCEPT ![o] = 0]
    /\ UNCHANGED <<handles, pageSize, subVars, now, panicked>>

\* Delete(o): one remote delete, not retried; it fails when the remote call
\* fails (a transient error, or no such blob).
Delete(o) ==
    /\ ~panicked
    /\ \E ok \in {b \in BOOLEAN : b => remote[o].present} :
         /\ remote' = IF ok THEN [remote EXCEPT ![o] = NoBlob] ELSE remote
         /\ last' = [BaseLast("Delete", 0, o, IF ok THEN "ok" ELSE "DeleteError")
                       EXCEPT !.attempts = 1, !.deletes = 1, !.remoteOk = ok]
    /\ UNCHANGED <<handles, objectMap, pageSize, subVars, now, panicked>>

\* ---------------------------------------------------------------- listing
\* Query: a prefix and the client-side filters, here a name pattern given as
\* the set of names it accepts (Names: no filter).
NoFilter == Names

Filters == {NoFilter, {n \in Names : Len(n) = 1}}

Prefixes == {NilName, nA, nB}

\* query.applyFilters(res): keeps the records the filters accept, in order.
applyFilters(res, filter) == SelectSeq(res, LAMBDA o : o.name \in filter)

\* concatGCSObjects(a, b): appends the results of page b to those of a.
concatGCSObjects(a, b) == a \o b

\* The record List builds from one listed blob: its name and metadata, with
\* Content-Length filled in from the size.
ListRecord(gobj) ==
    [name |-> gobj.name, meta |-> gobj.meta, contentLength |-> gobj.size]

\* Sum of a sequence of numbers.
RECURSIVE Sum(_)
Sum(s) == IF s = <<>> THEN 0 ELSE Head(s) + Sum(Tail(s))

\* ListRest with a failed page ending the loop: what was gathered so far is
\* returned without the error.
RECURSIVE ListRestPartial(_, _, _, _, _, _)
ListRestPartial(rem, prefix, max, token, acc, tries) ==
    IF token = 0
    THEN {[err |-> "ok", results |-> acc, tries |-> tries, remoteOk |-> TRUE,
           lasterr |-> 0]}
    ELSE UNION {
           IF r.err # "ok"
           THEN {[err |-> "ok", results |-> acc,
                  tries |-> Append(tries, r.attempts), remoteOk |-> FALSE,
                  lasterr |-> r.lasterr]}
           ELSE ListRestPartial(rem, prefix, max, r.page.next,
                                concatGCSObjects(acc, r.page.results),
                                Append(tries, r.attempts))
           : r \in listObjects(rem, prefix, max, token, GCSRetries, 0)}

\* The loop over the continuation pages, from the query q = token on, with
\* the results gathered so far; tries: the tries each listObjects call took.
RECURSIVE ListRest(_, _, _, _, _, _)
ListRest(rem, prefix, max, token, acc, tries) ==
    IF token = 0
    THEN {[err |-> "ok", results |-> acc, tries |-> tries, remoteOk |-> TRUE,
           lasterr |-> 0]}
    ELSE UNION {
           IF r.err # "ok"
           THEN {[err |-> r.err, results |-> <<>>,
                  tries |-> Append(tries, r.attempts), remoteOk |-> FALSE,
                  lasterr |-> r.lasterr]}
           ELSE ListRest(rem, prefix, max, r.page.next,
                         concatGCSObjects(acc, r.page.results),
                         Append(tries, r.attempts))
           : r \in listObjects(rem, prefix, max, token, GCSRetries, 0)}

\* ListOutcomes with the continuation of the first page ignored.
ListOutcomesFirstPage(rem, prefix, max) ==
    {[err |-> r.err, results |-> r.page.results, tries |-> <<r.attempts>>,
      remoteOk |-> r.remoteOk, lasterr |-> r.lasterr]
     : r \in listObjects(rem, prefix, max, 0, GCSRetries, 0)}

\* List up to the gathered results: the first page, then the remaining ones
\* when the first page carries a continuation.
ListOutcomes(rem, prefix, max) ==
    UNION {
      IF r.err # "ok"
      THEN {[err |-> r.err, results |-> <<>>, tries |-> <<r.attempts>>,
             remoteOk |-> FALSE, lasterr |-> r.lasterr]}
      ELSE IF r.page.next # 0
      THEN ListRest(rem, prefix, max, r.page.next, r.page.results,
                    <<r.attempts>>)
      ELSE {[err |-> "ok", results |-> r.page.results,
             tries |-> <<r.attempts>>, remoteOk |-> TRUE, lasterr |-> 0]}
      : r \in listObjects(rem, prefix, max, 0, GCSRetries, 0)}

\* The records of a successful List: one per gathered result, then filtered.
ListResult(results, filter) ==
    applyFilters([i \in 1..Len(results) |-> ListRecord(results[i])], filter)

List(prefix, filter) ==
    /\ ~panicked
    /\ \E r \in ListOutcomes(remote, prefix, pageSize) :
         last' = [BaseLast("List", 0, prefix, r.err)
                    EXCEPT !.attempts = r.tries[Len(r.tries)],
                           !.lists = Sum(r.tries), !.tries = r.tries,
                           !.remoteOk = r.remoteOk, !.arg = filter,
                           !.lasterr = r.lasterr,
                           !.out = IF r.err = "ok"
                                   THEN ListResult(r.results, filter)
                                   ELSE <<>>]
    /\ UNCHANGED <<remote, handles, objectMap, pageSize, subVars, now, panicked>>

\* -------------------------------------------------------- the sub command
\* The process runs until os.Exit, a panic, or a signal nobody catches.
Running == pc.main \in {"select", "test"}

\* shouldQuit on a channel holding c signals: a non-blocking receive; a
\* received signal ends the notification (signal.Stop).  The assignment
\* quit = nil is to the function's own parameter.
shouldQuit(c) ==
    IF c > 0
    THEN [caught |-> TRUE, quit |-> c - 1, notify |-> FALSE]
    ELSE [caught |-> FALSE, quit |-> c, notify |-> notify]

\* A SIGINT, SIGTERM or SIGQUIT arrives: it is put on the quit channel
\* when notification is in force and the channel has room, and it ends
\* the process when signal.Stop has restored the default disposition.
Signal ==
    /\ Running
    /\ IF notify
       THEN /\ quit = 0
            /\ quit' = 1
            /\ UNCHANGED pc
       ELSE /\ pc' = [main |-> "killed", puller |-> "killed"]
            /\ UNCHANGED quit
    /\ UNCHANGED <<notify, msg, i0, i1, numConsume, ack, storeVars>>

\* The puller's loop condition: for !shouldQuit(quit).
PullerCheck ==
    /\ Running
    /\ pc.puller = "check"
    /\ LET r == shouldQuit(quit) IN
         /\ quit' = r.quit
         /\ notify' = r.notify
         /\ pc' = [pc EXCEPT !.puller = IF r.caught THEN "done" ELSE "next"]
    /\ UNCHANGED <<msg, i0, i1, numConsume, ack, storeVars>>

\* The puller's it.Next(): a message, or nil with an error (pubsub.Done
\* included), which is logged.  The closure's quit is never nil, so the
\* puller goes on to send m in both cases.
PullerNext ==
    /\ Running
    /\ pc.puller = "next"
    /\ \E r \in {"msg", "nil"} : msg' = r
    /\ pc' = [pc EXCEPT !.puller = "send"]
    /\ UNCHANGED <<quit, notify, i0, i1, numConsume, ack, storeVars>>

\* The puller's send on the unbuffered msgs meets the main loop's receive:
\* i0++, and with ack set m.Done(true), which panics on a nil message.
MainReceive ==
    /\ pc.main = "select"
    /\ pc.puller = "send"
    /\ i0' = i0 + 1
    /\ pc' = IF ack /\ msg = "nil"
             THEN [main |-> "panic", puller |-> "panic"]
             ELSE [main |-> "test", puller |-> "check"]
    /\ UNCHANGED <<quit, notify, msg, i1, numConsume, ack, storeVars>>

\* The main loop's heartbeat: no message within a second.
MainTimeout ==
    /\ pc.main = "select"
    /\ pc.puller # "send"
    /\ i1' = i0
    /\ pc' = [pc EXCEPT !.main = "test"]
    /\ UNCHANGED <<quit, notify, msg, i0, numConsume, ack, storeVars>>

\* The main loop's exit test: shouldQuit(quit) || i0 >= numConsume, then
\* os.Exit(0), which ends the puller too.
MainTest ==
    /\ pc.main = "test"
    /\ LET r == shouldQuit(quit) IN
         /\ quit' = r.quit
         /\ notify' = r.notify
         /\ pc' = IF r.caught \/ i0 >= numConsume
                  THEN [main |-> "exit", puller |-> "exit"]
                  ELSE [pc EXCEPT !.main = "select"]
    /\ UNCHANGED <<msg, i0, i1, numConsume, ack, storeVars>>

\* ------------------------------------------------------------- the handle
\* The retry loop of Open from try on.  st: the buffer and the cached
\* googleObject so far, and the remote calls made.  A try lists the name when
\* no googleObject is cached, then downloads the blob when one is; a failing
\* remote call ends the try and the next one starts with whatever the handle
\* holds by then.  io.Copy into a nil buffer panics.
RECURSIVE OpenLoop(_, _, _, _)
OpenLoop(o, rem, try, st) ==
    IF try >= GCSRetries
    THEN {[err |-> "OpenRetryExceeded", buff |-> st.buff, gobj |-> st.gobj,
           attempts |-> try, lists |-> st.lists, reads |-> st.reads,
           remoteOk |-> FALSE]}
    ELSE
      LET listed == st.gobj = NilName
          page == RemoteList(rem, o.name, 1, 0)
          st1 == IF listed
                 THEN [st EXCEPT !.lists = @ + 1,
                                 !.gobj = IF Len(page.results) # 0
                                          THEN page.results[1].name ELSE @]
                 ELSE st
          st2 == [st1 EXCEPT !.reads = @ + 1]
          body == rem[o.name].body
          done(err, buff, rs) ==
              [err |-> err, buff |-> buff, gobj |-> st1.gobj,
               attempts |-> try + 1, lists |-> st1.lists, reads |-> rs,
               remoteOk |-> TRUE]
          listFail == IF listed
                      THEN OpenLoop(o, rem, try + 1, [st EXCEPT !.lists = @ + 1])
                      ELSE {}
          readerFail == OpenLoop(o, rem, try + 1, st2)
          copyFail ==
              UNION {OpenLoop(o, rem, try + 1, [st2 EXCEPT !.buff = @ \o Take(body, m)])
                     : m \in {k \in 0..Len(body) : Len(st.buff) + k <= MaxLen}}
          copyOk == IF Len(st.buff) + Len(body) <= MaxLen
                    THEN {done("ok", st.buff \o body, st2.reads)}
                    ELSE {}
          download ==
              IF st1.gobj = NilName THEN {done("ok", st.buff, st1.reads)}
              ELSE readerFail \cup
                   (IF ~rem[o.name].present THEN {}
                    ELSE IF o.buffNil THEN {done("panic", st.buff, st2.reads)}
                    ELSE copyFail \cup copyOk)
      IN listFail \cup download

\* Open on a handle that is not opened: the retry loop, then on success the
\* access level and the opened flag are set.
OpenClosed(h, accesslevel) ==
    LET o == handles[h] IN
    \E r \in OpenLoop(o, remote, 0,
                      [buff |-> o.buff, gobj |-> o.googleObject,
                       lists |-> 0, reads |-> 0]) :
      /\ handles' =
           [handles EXCEPT ![h] =
              [o EXCEPT !.buff = r.buff, !.googleObject = r.gobj,
                        !.readonly = IF r.err = "ok"
                                     THEN accesslevel = ReadOnly ELSE @,
                        !.opened = r.err = "ok"]]
      /\ panicked' = (r.err = "panic")
      /\ last' = [BaseLast("Open", h, o.name, r.err)
                    EXCEPT !.attempts = r.attempts, !.lists = r.lists,
                           !.reads = r.reads, !.remoteOk = r.remoteOk,
                           !.arg = accesslevel]

\* Open without the check of the opened flag.
OpenUnchecked(h, accesslevel) ==
    /\ ~panicked
    /\ handles[h].live
    /\ OpenClosed(h, accesslevel)
    /\ UNCHANGED <<remote, objectMap, pageSize, subVars, now>>

Open(h, accesslevel) ==
    /\ ~panicked
    /\ handles[h].live
    /\ IF handles[h].opened
       THEN /\ last' = [BaseLast("Open", h, handles[h].name, "AlreadyOpen")
                          EXCEPT !.arg = accesslevel]
            /\ UNCHANGED <<handles, panicked>>
       ELSE OpenClosed(h, accesslevel)
    /\ UNCHANGED <<remote, objectMap, pageSize, subVars, now>>

\* Read(p) with len(p) = k: bytes.Buffer.Read takes the first k unread bytes.
Read(h, k) ==
    /\ ~panicked
    /\ handles[h].live
    /\ LET o == handles[h] IN
       IF o.buffNil
       THEN /\ panicked' = TRUE
            /\ last' = BaseLast("Read", h, o.name, "panic")
            /\ UNCHANGED handles
       ELSE /\ handles' = [handles EXCEPT ![h].buff = Drop(o.buff, k)]
            /\ last' = [BaseLast("Read", h, o.name,
                                 IF o.buff = <<>> /\ k > 0 THEN "EOF" ELSE "ok")
                          EXCEPT !.arg = k, !.out = Take(o.buff, k)]
            /\ UNCHANGED panicked
    /\ UNCHANGED <<remote, objectMap, pageSize, subVars, now>>

\* Seek that accepts the call.
SeekAccepted(h) ==
    /\ ~panicked
    /\ handles[h].live
    /\ \E a \in {<<0, 0>>, <<1, 2>>} :
         LET offset == a[1]
             whence == a[2]
         IN last' = [BaseLast("Seek", h, handles[h].name, "ok")
                       EXCEPT !.arg = <<offset, whence>>]
    /\ UNCHANGED <<remote, handles, objectMap, pageSize, subVars, now, panicked>>

\* Seek(offset, whence): returns an error whatever the arguments (a seek
\* from the start and one from the end are tried) and touches nothing.
Seek(h) ==
    /\ ~panicked
    /\ handles[h].live
    /\ \E a \in {<<0, 0>>, <<1, 2>>} :
         LET offset == a[1]
             whence == a[2]
         IN last' = [BaseLast("Seek", h, handles[h].name, "SeekNotAllowed")
                       EXCEPT !.arg = <<offset, whence>>]
    /\ UNCHANGED <<remote, handles, objectMap, pageSize, subVars, now, panicked>>

\* Truncate that keeps one byte more than asked.
TruncateOneMore(h, t) ==
    /\ ~panicked
    /\ handles[h].live
    /\ LET o == handles[h] IN
       IF o.buffNil \/ t < 0 \/ t > Len(o.buff)
       THEN /\ panicked' = TRUE
            /\ last' = [BaseLast("Truncate", h, o.name, "panic") EXCEPT !.arg = t]
            /\ UNCHANGED handles
       ELSE /\ handles' = [handles EXCEPT ![h].buff = Take(o.buff, t + 1)]
            /\ last' = [BaseLast("Truncate", h, o.name, "ok")
                          EXCEPT !.arg = t, !.out = Drop(o.buff, t + 1)]
            /\ UNCHANGED panicked
    /\ UNCHANGED <<remote, objectMap, pageSize, subVars, now>>

\* Truncate(t): bytes.Buffer.Truncate keeps the first t unread bytes and
\* panics when t is out of range.
Truncate(h, t) ==
    /\ ~panicked
    /\ handles[h].live
    /\ LET o == handles[h] IN
       IF o.buffNil \/ t < 0 \/ t > Len(o.buff)
       THEN /\ panicked' = TRUE
            /\ last' = [BaseLast("Truncate", h, o.name, "panic") EXCEPT !.arg = t]
            /\ UNCHANGED handles
       ELSE /\ handles' = [handles EXCEPT ![h].buff = Take(o.buff, t)]
            /\ last' = [BaseLast("Truncate", h, o.name, "ok")
                          EXCEPT !.arg = t, !.out = Drop(o.buff, t)]
            /\ UNCHANGED panicked
    /\ UNCHANGED <<remote, objectMap, pageSize, subVars, now>>

\* Write(p): stamps updated with the current time, then appends to the buffer.
Write(h, p) ==
    /\ ~panicked
    /\ handles[h].live
    /\ now < MaxClock
    /\ Len(handles[h].buff) + Len(p) <= MaxLen
    /\ now' = now + 1
    /\ LET o == handles[h] IN
       IF o.buffNil
       THEN /\ handles' = [handles EXCEPT ![h].updated = now']
            /\ panicked' = TRUE
            /\ last' = [BaseLast("Write", h, o.name, "panic") EXCEPT !.arg = p]
       ELSE /\ handles' = [handles EXCEPT ![h].updated = now',
                                          ![h].buff = o.buff \o p]
            /\ last' = [BaseLast("Write", h, o.name, "ok") EXCEPT !.arg = p]
            /\ UNCHANGED panicked
    /\ UNCHANGED <<remote, objectMap, pageSize, subVars>>

\* SyncLoop with the buffer uploaded from a copy: a successful try leaves
\* the buffer as it was.
RECURSIVE SyncLoopKeepsBuffer(_, _, _, _)
SyncLoopKeepsBuffer(buff, blob, meta, try) ==
    IF try >= GCSRetries
    THEN {[err |-> "SyncRetryExceeded", buff |-> buff, blob |-> blob,
           attempts |-> try, remoteOk |-> FALSE]}
    ELSE {[err |-> "ok", buff |-> buff, blob |-> Blob(buff, meta),
           attempts |-> try + 1, remoteOk |-> TRUE]}
         \cup SyncLoopKeepsBuffer(buff, blob, meta, try + 1)

\* The retry loop of Sync from try on.  Each try opens a writer on the blob
\* and copies the buffer into it, which drains the buffer as far as the copy
\* gets; the blob is written when the writer is closed.  A failing close may
\* or may not have committed the body it was given.
RECURSIVE SyncLoop(_, _, _, _)
SyncLoop(buff, blob, meta, try) ==
    IF try >= GCSRetries
    THEN {[err |-> "SyncRetryExceeded", buff |-> buff, blob |-> blob,
           attempts |-> try, remoteOk |-> FALSE]}
    ELSE {[err |-> "ok", buff |-> <<>>, blob |-> Blob(buff, meta),
           attempts |-> try + 1, remoteOk |-> TRUE]}
         \cup UNION {SyncLoop(Drop(buff, m), blob, meta, try + 1)
                     : m \in 0..Len(buff)}
         \cup UNION {SyncLoop(<<>>, IF c THEN Blob(buff, meta) ELSE blob,
                              meta, try + 1)
                     : c \in BOOLEAN}

\* SyncOutcomes without the check of the readonly flag.
SyncOutcomesAnyAccess(o, blob) ==
    IF ~o.opened
    THEN {[err |-> "NotOpened", o |-> o, blob |-> blob, attempts |-> 0,
           remoteOk |-> FALSE]}
    ELSE {[err |-> r.err, o |-> [o EXCEPT !.buff = r.buff], blob |-> r.blob,
           attempts |-> r.attempts, remoteOk |-> r.remoteOk]
          : r \in SyncLoop(o.buff, blob, o.metadata, 0)}

\* Sync on handle o with the remote blob of its name: what it returns, the
\* handle and the blob afterwards.
SyncOutcomes(o, blob) ==
    IF ~o.opened
    THEN {[err |-> "NotOpened", o |-> o, blob |-> blob, attempts |-> 0,
           remoteOk |-> FALSE]}
    ELSE IF o.readonly
    THEN {[err |-> "SyncReadonly", o |-> o, blob |-> blob, attempts |-> 0,
           remoteOk |-> FALSE]}
    ELSE IF o.buffNil
    THEN {[err |-> "panic", o |-> o, blob |-> blob, attempts |-> 1,
           remoteOk |-> TRUE]}
    ELSE {[err |-> r.err, o |-> [o EXCEPT !.buff = r.buff], blob |-> r.blob,
           attempts |-> r.attempts, remoteOk |-> r.remoteOk]
          : r \in SyncLoop(o.buff, blob, o.metadata, 0)}

Sync(h) ==
    /\ ~panicked
    /\ handles[h].live
    /\ \E r \in SyncOutcomes(handles[h], remote[handles[h].name]) :
         /\ handles' = [handles EXCEPT ![h] = r.o]
         /\ remote' = [remote EXCEPT ![handles[h].name] = r.blob]
         /\ panicked' = (r.err = "panic")
         /\ last' = [BaseLast("Sync", h, handles[h].name, r.err)
                       EXCEPT !.attempts = r.attempts, !.uploads = r.attempts,
                              !.remoteOk = r.remoteOk,
                              !.syncs = 1]
    /\ UNCHANGED <<objectMap, pageSize, subVars, now>>

\* CloseOutcomes without the early return for a handle that is not opened.
CloseOutcomesUnchecked(o, blob) ==
    UNION {
      IF s1.err # "ok"
      THEN {[err |-> s1.err, o |-> s1.o, blob |-> s1.blob, syncs |-> 1,
             uploads |-> s1.attempts, attempts |-> s1.attempts,
             remoteOk |-> s1.remoteOk]}
      ELSE {[err |-> s2.err,
             o |-> IF s2.err = "ok" THEN [s2.o EXCEPT !.opened = FALSE] ELSE s2.o,
             blob |-> s2.blob, syncs |-> 2,
             uploads |-> s1.attempts + s2.attempts, attempts |-> s2.attempts,
             remoteOk |-> s2.remoteOk]
            : s2 \in SyncOutcomes(s1.o, s1.blob)}
      : s1 \in SyncOutcomes(o, blob)}

\* Close on handle o: nothing when not opened; else Sync, and its error
\* returned; else, when opened and writable, Sync again, and its error
\* returned; else the handle is marked closed.
CloseOutcomes(o, blob) ==
    IF ~o.opened
    THEN {[err |-> "ok", o |-> o, blob |-> blob, syncs |-> 0, uploads |-> 0,
           attempts |-> 0, remoteOk |-> FALSE]}
    ELSE UNION {
      IF s1.err # "ok"
      THEN {[err |-> s1.err, o |-> s1.o, blob |-> s1.blob, syncs |-> 1,
             uploads |-> s1.attempts, attempts |-> s1.attempts,
             remoteOk |-> s1.remoteOk]}
      ELSE IF s1.o.opened /\ ~s1.o.readonly
      THEN {[err |-> s2.err,
             o |-> IF s2.err = "ok" THEN [s2.o EXCEPT !.opened = FALSE] ELSE s2.o,
             blob |-> s2.blob, syncs |-> 2,
             uploads |-> s1.attempts + s2.attempts, attempts |-> s2.attempts,
             remoteOk |-> s2.remoteOk]
            : s2 \in SyncOutcomes(s1.o, s1.blob)}
      ELSE {[err |-> "ok", o |-> [s1.o EXCEPT !.opened = FALSE],
             blob |-> s1.blob, syncs |-> 1, uploads |-> s1.attempts,
             attempts |-> s1.attempts, remoteOk |-> s1.remoteOk]}
      : s1 \in SyncOutcomes(o, blob)}

Close(h) ==
    /\ ~panicked
    /\ handles[h].live
    /\ \E r \in CloseOutcomes(handles[h], remote[handles[h].name]) :
         /\ handles' = [handles EXCEPT ![h] = r.o]
         /\ remote' = [remote EXCEPT ![handles[h].name] = r.blob]
         /\ panicked' = (r.err = "panic")
         /\ last' = [BaseLast("Close", h, handles[h].name, r.err)
                       EXCEPT !.attempts = r.attempts, !.uploads = r.uploads,
                              !.remoteOk = r.remoteOk, !.syncs = r.syncs]
    /\ UNCHANGED <<objectMap, pageSize, subVars, now>>

\* Release: resets the buffer.
Release(h) ==
    /\ ~panicked
    /\ handles[h].live
    /\ LET o == handles[h] IN
       IF o.buffNil
       THEN /\ panicked' = TRUE
            /\ last' = BaseLast("Release", h, o.name, "panic")
            /\ UNCHANGED handles
       ELSE /\ handles' = [handles EXCEPT ![h].buff = <<>>]
            /\ last' = BaseLast("Release", h, o.name, "ok")
            /\ UNCHANGED panicked
    /\ UNCHANGED <<remote, objectMap, pageSize, subVars, now>>

\* ------------------------------------------------------ the specifications
\* The blobs the bucket may hold under a name at the start.
InitBlobs == {Blob(<<>>, "m1"), Blob(<<1, 2>>, "m2")}

Buckets == [Names -> {NoBlob} \cup InitBlobs]

\* The names the caller of the handle operations works with.
HandleNames == {nA, nAB}

\* Spec: one handle through its life, on a bucket that holds any of the
\* blobs "a" and "ab" at the start.
\* The sub command is not running.
SubOff ==
    /\ quit = 0
    /\ notify = FALSE
    /\ pc = [main |-> "off", puller |-> "off"]
    /\ msg = "none"
    /\ i0 = 0
    /\ i1 = 0
    /\ numConsume = 10
    /\ ack = FALSE

Init ==
    /\ SubOff
    /\ remote \in {r \in Buckets : ~r[nB].present}
    /\ handles = [h \in HandleIds |-> NoHandle]
    /\ objectMap = [n \in Names |-> 0]
    /\ pageSize = 1
    /\ now = 0
    /\ panicked = FALSE
    /\ last = BaseLast("init", 0, NilName, "ok")

Next ==
    \/ \E n \in HandleNames : NewObject(n, {1})
    \/ \E n \in HandleNames : Get(n, {1})
    \/ \E n \in HandleNames : Delete(n)
    \/ \E a \in AccessLevels : Open(1, a)
    \/ \E k \in 0..MaxLen : Read(1, k)
    \/ Seek(1)
    \/ \E t \in 0..MaxLen : Truncate(1, t)
    \/ \E p \in BSeq(MaxLen) : Write(1, p)
    \/ Sync(1)
    \/ Close(1)
    \/ Release(1)

Spec == Init /\ [][Next]_vars

\* SpecStore: the registry on any bucket, with any page size.
InitStore ==
    /\ SubOff
    /\ remote \in Buckets
    /\ handles = [h \in HandleIds |-> NoHandle]
    /\ objectMap = [n \in Names |-> 0]
    /\ pageSize \in 1..MaxPageSize
    /\ now = 0
    /\ panicked = FALSE
    /\ last = BaseLast("init", 0, NilName, "ok")

NextStore ==
    \/ \E n \in Names : NewObject(n, HandleIds)
    \/ \E n \in Names : Get(n, HandleIds)
    \/ \E p \in Prefixes, f \in Filters : List(p, f)
    \/ \E n \in Names : Delete(n)

SpecStore == InitStore /\ [][NextStore]_vars

\* SpecSub: the sub command from the start of its two loops, with any
\* --num from 1 to MaxConsume and either --ack.  The Go scheduler runs a
\* goroutine that can take a step, and the heartbeat timer fires; nothing
\* makes it.Next return or a signal arrive.
InitSub ==
    /\ remote = [n \in Names |-> NoBlob]
    /\ handles = [h \in HandleIds |-> NoHandle]
    /\ objectMap = [n \in Names |-> 0]
    /\ pageSize = 1
    /\ now = 0
    /\ panicked = FALSE
    /\ last = BaseLast("init", 0, NilName, "ok")
    /\ quit = 0
    /\ notify = TRUE
    /\ pc = [main |-> "select", puller |-> "check"]
    /\ msg = "none"
    /\ i0 = 0
    /\ i1 = 0
    /\ numConsume \in 1..MaxConsume
    /\ ack \in BOOLEAN

NextSub ==
    \/ Signal
    \/ PullerCheck
    \/ PullerNext
    \/ MainReceive
    \/ MainTimeout
    \/ MainTest

SpecSub ==
    /\ InitSub
    /\ [][NextSub]_vars
    /\ WF_vars(PullerCheck)
    /\ WF_vars(MainReceive)
    /\ WF_vars(MainTimeout)
    /\ WF_vars(MainTest)

\* ------------------------------------------------------------ properties
\* The handle the step acted on, as it was before the step.
Acted == handles[last'.h]

\* C1: on a handle opened ReadWrite whose buffer is exactly the data just
\* written (Open, then Write(data)), a successful Close leaves the remote
\* blob of that name with content data, which a new Open then reads back.
C1_RoundTrip ==
    [][(/\ last'.op = "Close" /\ last'.err = "ok"
        /\ last.op = "Write" /\ last.err = "ok" /\ last.h = last'.h
        /\ Acted.opened /\ ~Acted.readonly /\ Acted.buff = last.arg)
       => /\ remote'[Acted.name].present
          /\ remote'[Acted.name].body = last.arg]_vars

\* C2: Close on an opened writable handle performs exactly one Sync, returns
\* that Sync's error, and on success leaves the handle not opened.
C2_CloseSyncsOnce ==
    [][(last'.op = "Close" /\ Acted.opened /\ ~Acted.readonly)
       => /\ last'.syncs = 1
          /\ last'.err = "ok" => ~handles'[last'.h].opened]_vars

\* C3: Close on a handle opened ReadOnly returns no error and leaves the
\* handle not opened.
C3_CloseReadOnly ==
    [][(last'.op = "Close" /\ Acted.opened /\ Acted.readonly)
       => /\ last'.err = "ok"
          /\ ~handles'[last'.h].opened]_vars

\* C4: only an opened, writable handle uploads: Sync on a handle that is not
\* opened or is readonly fails and writes nothing, and no operation on a
\* handle opened ReadOnly changes the remote store.
C4_UploadOnlyWritable ==
    [][/\ last'.uploads > 0 => (Acted.opened /\ ~Acted.readonly)
       /\ (last'.op = "Sync" /\ (~Acted.opened \/ Acted.readonly))
          => (last'.err # "ok" /\ last'.uploads = 0 /\ remote' = remote)
       /\ (last'.h # 0 /\ Acted.opened /\ Acted.readonly)
          => remote' = remote]_vars

\* C4 witness: Close was called on a handle opened ReadOnly.
C4_Witness ==
    /\ last.op = "Close" /\ last.err = "SyncReadonly"
    /\ handles[last.h].opened /\ handles[last.h].readonly

\* C5: Write on a handle that is not opened, or is opened ReadOnly, is
\* rejected and leaves the buffer and the updated timestamp unchanged.
C5_WriteRejected ==
    [][(last'.op = "Write" /\ ~(Acted.opened /\ ~Acted.readonly))
       => /\ last'.err # "ok"
          /\ handles'[last'.h].buff = Acted.buff
          /\ handles'[last'.h].updated = Acted.updated]_vars

\* C6: Open on a handle that is already opened fails with the already-open
\* error, makes no remote call and changes neither the handle nor the remote
\* store; readonly does not change while a handle stays opened.
C6_ReopenRejected ==
    [][/\ (last'.op = "Open" /\ Acted.opened)
          => /\ last'.err = "AlreadyOpen"
             /\ last'.lists = 0 /\ last'.reads = 0
             /\ handles'[last'.h] = Acted
             /\ remote' = remote
       /\ \A g \in HandleIds :
            (handles[g].opened /\ handles'[g].opened)
            => handles'[g].readonly = handles[g].readonly]_vars

\* C6 witness: Open was called on an opened handle.
C6_Witness ==
    /\ last.op = "Open" /\ last.err = "AlreadyOpen"
    /\ handles[last.h].opened

\* C7: NewObject(n) succeeds whenever the remote store holds no blob named n
\* (and the lookup itself did not fail).
C7_NewObjectSucceeds ==
    (last.op = "NewObject" /\ last.remoteOk /\ ~remote[last.name].present)
    => last.err = "ok"

\* C8: Get(name) fails with ObjectNotFound when the remote store holds no
\* blob named exactly name, and otherwise returns a handle of that name with
\* that blob's metadata.
C8_GetExactName ==
    (last.op = "Get" /\ last.remoteOk)
    => IF remote[last.name].present
       THEN /\ last.err = "ok"
            /\ handles[last.h].name = last.name
            /\ handles[last.h].metadata = remote[last.name].meta
       ELSE last.err = "ObjectNotFound"

\* C9: a retrying operation makes at most GCSRetries tries; when the remote
\* calls of a try succeed it returns success, and when every try fails it
\* returns one failure after exactly GCSRetries tries.
C9_BoundedRetry ==
    /\ last.op \in {"Get", "NewObject"}
       => /\ last.attempts <= GCSRetries
          /\ last.remoteOk => last.err \in {"ok", "ObjectNotFound", "ObjectExists"}
          /\ ~last.remoteOk => (last.err = "ListError" /\ last.attempts = GCSRetries)
    /\ (last.op = "Open" /\ last.err # "AlreadyOpen")
       => /\ last.attempts <= GCSRetries
          /\ last.remoteOk => last.err = "ok"
          /\ ~last.remoteOk
             => (last.err = "OpenRetryExceeded" /\ last.attempts = GCSRetries)
    /\ (last.op = "Sync" /\ last.err \notin {"NotOpened", "SyncReadonly"})
       => /\ last.attempts <= GCSRetries
          /\ last.remoteOk => last.err = "ok"
          /\ ~last.remoteOk
             => (last.err = "SyncRetryExceeded" /\ last.attempts = GCSRetries)

\* The blobs a prefix matches, and the pages a listing of them takes.
Matching(prefix) == {n \in Names : remote[n].present /\ HasPrefix(n, prefix)}

PagesOf(n) == IF n = 0 THEN 1 ELSE (n + pageSize - 1) \div pageSize

\* C10: a successful List returns the records a single page holding every
\* match would give, in the same order, whatever the number of continuation
\* pages, and fetches exactly the pages up to the one without continuation.
C10_PaginationMerge ==
    (last.op = "List" /\ last.err = "ok")
    => /\ last.out =
            ListResult(RemoteList(remote, last.name, Cardinality(Names), 0).results,
                       last.arg)
       /\ Len(last.tries) = PagesOf(Cardinality(Matching(last.name)))

\* C10 witness: a List merged three pages into three records.
C10_Witness ==
    /\ last.op = "List" /\ last.err = "ok"
    /\ Len(last.tries) = 3 /\ Len(last.out) = 3

\* C11: on an opened writable handle, after Truncate(0) a Read yields zero
\* bytes, a successful Sync or Close leaves an empty remote blob and an
\* empty buffer, and the Open after that Close leaves the buffer empty.
C11_TruncateZero ==
    [][/\ (/\ last.op = "Truncate" /\ last.arg = 0 /\ last.err = "ok"
           /\ last.h = last'.h /\ Acted.opened /\ ~Acted.readonly)
          => /\ Acted.buff = <<>>
             /\ last'.op = "Read" => last'.out = <<>>
             /\ (last'.op \in {"Sync", "Close"} /\ last'.err = "ok")
                => /\ remote'[Acted.name] = Blob(<<>>, Acted.metadata)
                   /\ handles'[last'.h].buff = <<>>
       /\ (/\ last.op = "Close" /\ last.err = "ok" /\ last.h = last'.h
           /\ last'.op = "Open" /\ last'.err = "ok"
           /\ Acted.buff = <<>> /\ remote[Acted.name] = Blob(<<>>, Acted.metadata))
          => handles'[last'.h].buff = <<>>]_vars

\* C11 witness: Truncate(0) dropped the content of an opened writable handle.
C11_Witness ==
    /\ last.op = "Truncate" /\ last.arg = 0 /\ last.err = "ok"
    /\ last.out # <<>>
    /\ handles[last.h].opened /\ ~handles[last.h].readonly

\* C12: Seek fails for every offset and whence in every handle state and
\* changes neither the handle nor the remote store.
C12_SeekFails ==
    [][last'.op = "Seek"
       => /\ last'.err # "ok"
          /\ handles' = handles
          /\ remote' = remote]_vars

\* C12 witness: Seek was called with a non-zero offset and whence on an
\* opened writable handle that holds data.
C12_Witness ==
    /\ last.op = "Seek" /\ last.arg = <<1, 2>>
    /\ handles[last.h].opened /\ ~handles[last.h].readonly
    /\ handles[last.h].buff # <<>>

\* C13: Close on a handle that is not opened returns no error, makes no
\* remote call and changes nothing, however often it is called.
C13_CloseNotOpened ==
    [][(last'.op = "Close" /\ ~Acted.opened)
       => /\ last'.err = "ok"
          /\ last'.syncs = 0 /\ last'.uploads = 0
          /\ handles' = handles
          /\ remote' = remote]_vars

\* C13 witness: Close was called on a handle that holds data and is not
\* opened.
C13_Witness ==
    /\ last.op = "Close" /\ last.syncs = 0
    /\ ~handles[last.h].opened /\ handles[last.h].buff # <<>>

\* C14: when Sync returns success the remote blob's body is the whole buffer
\* as it was when Sync was called, also when an earlier try failed.
C14_SyncUploadsBuffer ==
    [][(last'.op = "Sync" /\ last'.err = "ok")
       => /\ remote'[Acted.name].present
          /\ remote'[Acted.name].body = Acted.buff]_vars

\* C15: when Open succeeds on a handle whose name exists remotely, the
\* buffer afterwards holds exactly the remote blob's content, once.
C15_OpenLoadsBlob ==
    [][(last'.op = "Open" /\ last'.err = "ok" /\ remote[Acted.name].present)
       => handles'[last'.h].buff = remote[Acted.name].body]_vars

\* C16: when the retries of a page run out, List returns the error of the
\* last try and no records, whatever pages were fetched before; an empty
\* first page gives an empty result and no error.
C16_ListFailure ==
    last.op = "List"
    => /\ ~last.remoteOk
          => /\ last.err = "ListError"
             /\ last.out = <<>>
             /\ last.attempts = GCSRetries /\ last.lasterr = GCSRetries
       /\ (last.remoteOk /\ Matching(last.name) = {})
          => (last.err = "ok" /\ last.out = <<>> /\ Len(last.tries) = 1)

\* C16 witness: the retries ran out on a continuation page.
C16_Witness ==
    /\ last.op = "List" /\ last.err = "ListError"
    /\ Len(last.tries) >= 2

\* C17: Delete makes exactly one remote delete call and no lookup, returns
\* the remote error when that call fails, and leaves the registry and every
\* handle unchanged.
C17_DeleteFrame ==
    [][last'.op = "Delete"
       => /\ last'.deletes = 1 /\ last'.attempts = 1 /\ last'.lists = 0
          /\ (last'.err = "ok") = last'.remoteOk
          /\ last'.err # "ok" => remote' = remote
          /\ last'.err = "ok" => remote' = [remote EXCEPT ![last'.name] = NoBlob]
          /\ objectMap' = objectMap
          /\ handles' = handles]_vars

\* C17 witness: a Delete of the name of a registered, opened handle.
C17_Witness ==
    /\ last.op = "Delete" /\ last.err = "ok"
    /\ objectMap[last.name] # 0
    /\ handles[objectMap[last.name]].opened

\* C18: a successful Sync leaves the buffer empty, so a Read right after it
\* returns zero bytes and a Sync right after it uploads an empty body.
C18_SyncConsumesBuffer ==
    [][/\ (last'.op = "Sync" /\ last'.err = "ok")
          => handles'[last'.h].buff = <<>>
       /\ (last.op = "Sync" /\ last.err = "ok" /\ last.h = last'.h)
          => /\ last'.op = "Read" => last'.out = <<>>
             /\ (last'.op = "Sync" /\ last'.err = "ok")
                => remote'[Acted.name].body = <<>>]_vars

\* C18 witness: a Sync uploaded a non-empty buffer and left it empty.
C18_Witness ==
    /\ last.op = "Sync" /\ last.err = "ok"
    /\ remote[last.name].body # <<>>
    /\ handles[last.h].buff = <<>>

\* C19: once a signal is on the quit channel the main loop eventually stops
\* (it exits, or the process ends some other way), and after the signal
\* was caught no message reaches the main loop.
C19_QuitObserved ==
    /\ (quit = 1) ~> ~Running
    /\ [][~notify => i0' = i0]_vars

\* C20: every increment of i0 is for a message that it.Next returned
\* without error, and i0 never exceeds numConsume.
C20_CountsMessages ==
    [][i0' # i0 => (msg = "msg" /\ i0' <= numConsume)]_vars

====
